---------------------------- MODULE Spec2Model ----------------------------
(***************************************************************************)
(* Model of the multi-tenant record/relation graph store of app.py and of  *)
(* the seed script seed_test_data.py.                                      *)
(*                                                                         *)
(* The four tables (company, user, record, record_relation) are the        *)
(* state.  The store is SQLite as configured by DB_PATH: a new row's       *)
(* INTEGER PRIMARY KEY is max(rowid)+1 (1 in an empty table), foreign keys *)
(* are declared but not enforced, and the only constraint the storage      *)
(* layer enforces on record_relation is uq_relation_pair.                  *)
(*                                                                         *)
(* Every handler is one atomic action, except create_relation, which is    *)
(* three steps (validation, existence check, insert+commit) so that        *)
(* requests served by different threads interleave, and seed(), which is   *)
(* one step per commit.  sessions holds who has a store session open: a    *)
(* request thread, the script, or the worker of a one-step handler.        *)
(***************************************************************************)
EXTENDS Integers, Sequences, FiniteSets, TLC

\* Bounds of the model.
MaxCompany == 2
MaxRecord == 2
MaxRelation == 2

\* Request threads that may serve create_relation at the same time.
Threads == {"t1", "t2"}

\* Python's None (a superadmin's company_id, an absent query parameter).
None == -1

CompanyIds == 1..MaxCompany
RecordIds == 1..MaxRecord
RelationIds == 1..MaxRelation

\* Form values of name: sequences of characters, before .strip().
RawNames == {<<>>, <<" ">>, <<" ", "A", " ">>}

VARIABLES company, user, record, record_relation, req, seed_pc, seed_company, resp,
          sessions

vars == <<company, user, record, record_relation, req, seed_pc, seed_company, resp,
          sessions>>

-----------------------------------------------------------------------------
\* Helpers

Max(S) == CHOOSE x \in S : \A y \in S : y <= x

\* SQLite rowid allocation for an INTEGER PRIMARY KEY column.
NextRowid(ids) == IF ids = {} THEN 1 ELSE Max(ids) + 1

\* Python truthiness of an optional integer: `not x`.
Falsy(x) == x = None \/ x = 0

RECURSIVE LStrip(_)
LStrip(s) == IF s # <<>> /\ Head(s) = " " THEN LStrip(Tail(s)) ELSE s

RECURSIVE RStrip(_)
RStrip(s) == IF s # <<>> /\ s[Len(s)] = " " THEN RStrip(SubSeq(s, 1, Len(s) - 1)) ELSE s

LStripOnly(s) == LStrip(s)

\* str.strip()
Strip(s) == RStrip(LStrip(s))

RECURSIVE OrderById(_)
\* Rows of a table scan, in rowid order.
OrderById(rows) ==
    IF rows = {} THEN <<>>
    ELSE LET first == CHOOSE r \in rows : \A q \in rows : r.id <= q.id
         IN <<first>> \o OrderById(rows \ {first})

IdsOf(rows) == {r.id : r \in rows}

NormalizedPairUnordered(id1, id2) == <<id1, id2>>

NormalizedPairDescending(id1, id2) == IF id1 < id2 THEN <<id2, id1>> ELSE <<id1, id2>>

NormalizedPairKeepFirst(id1, id2) == <<id1, IF id1 < id2 THEN id2 ELSE id1>>

normalized_pair(id1, id2) == IF id1 < id2 THEN <<id1, id2>> ELSE <<id2, id1>>

\* The admin account init_db() creates.
Admin == [is_superadmin |-> TRUE, company_id |-> None]

\* What a request answers: the handler and the outcome its flash message, JSON
\* body or error states.
Response(op, outcome) == [op |-> op, outcome |-> outcome]

\* No response: the step ends no request.
NoResp == [op |-> "none", outcome |-> "none"]

Idle == [pc |-> "idle"]

\* db = get_db(): holder h opens its session.
get_db(S, h) == S \cup {h}

CloseUnlessRaised(S, h, raised) == IF raised THEN S ELSE S \ {h}

\* finally: db.close(), reached whether or not the try block raised.
db_close(S, h, raised) == S \ {h}

\* get_db() ... try ... finally db.close() within one step of a handler.
Scoped(S, raised) == db_close(get_db(S, "worker"), "worker", raised)

OldestFirst(rows) == OrderById(rows)

RECURSIVE NewestFirst(_)
\* order_by(created_at.desc()): rows are inserted with created_at = utcnow()
\* and the next rowid, and are only ever deleted all at once, so the newest
\* row is the one with the largest id.
NewestFirst(rows) ==
    IF rows = {} THEN <<>>
    ELSE LET last == CHOOSE r \in rows : \A q \in rows : q.id <= r.id
         IN <<last>> \o NewestFirst(rows \ {last})

NotCompanyUserSuperOnly(u) == u.is_superadmin

\* The guard shared by create_record, create_relation and delete_relation.
NotCompanyUser(u) == u.is_superadmin \/ Falsy(u.company_id)

-----------------------------------------------------------------------------
Init ==
    /\ company = {}
    /\ user = {Admin}
    /\ record = {}
    /\ record_relation = {}
    /\ req = [t \in Threads |-> Idle]
    /\ seed_pc = "idle"
    /\ seed_company = None
    /\ resp = NoResp
    /\ sessions = {}

-----------------------------------------------------------------------------
\* Queries of the handlers

\* current_user(db): the logged-in user's row; users are never deleted.
current_user(u) == u \in user

\* count of records of company cid among the two posted ids.
CountOwnedAny(cid, a_id, b_id) ==
    Cardinality({r \in record : r.id \in {a_id, b_id}})

CountOwned(cid, a_id, b_id) ==
    Cardinality({r \in record : r.company_id = cid /\ r.id \in {a_id, b_id}})

\* filter_by(a_id=a, b_id=b, company_id=cid).first()
ExistingRelation(a, b, cid) ==
    {e \in record_relation : e.a_id = a /\ e.b_id = b /\ e.company_id = cid}

UqRelationPairOff(a, b) == FALSE

\* UniqueConstraint("a_id", "b_id"): would inserting the pair (a, b) violate it?
uq_relation_pair(a, b) ==
    \E e \in record_relation : e.a_id = a /\ e.b_id = b

DeleteLookupAnyCompany(rel_id, cid) ==
    {e \in record_relation : e.id = rel_id}

\* filter(RecordRelation.id == rel_id, RecordRelation.company_id == cid).first()
DeleteLookup(rel_id, cid) ==
    {e \in record_relation : e.id = rel_id /\ e.company_id = cid}

SelfRelationUnchecked(a_id, b_id) == FALSE

\* if a_id == b_id
SelfRelation(a_id, b_id) == a_id = b_id

GraphCompanyRequested(u, requested) ==
    IF Falsy(requested) THEN u.company_id ELSE requested

\* api_graph's effective company id.
GraphCompany(u, requested) ==
    IF ~u.is_superadmin THEN u.company_id ELSE requested

GraphMissingCompanyDefaulted(u, requested) == FALSE

\* api_graph's 400: a superadmin without a (truthy) company_id parameter.
GraphMissingCompany(u, requested) == u.is_superadmin /\ Falsy(requested)

GraphEdgesSwapped(cid) ==
    LET rels == OrderById({e \in record_relation : e.company_id = cid})
    IN [i \in 1..Len(rels) |-> [a |-> rels[i].b_id, b |-> rels[i].a_id]]

\* The rows api_graph reads and the JSON lists it builds from them.
GraphNodes(cid) ==
    LET recs == OrderById({r \in record : r.company_id = cid})
    IN [i \in 1..Len(recs) |-> [id |-> recs[i].id, name |-> recs[i].name]]

GraphEdges(cid) ==
    LET rels == OrderById({e \in record_relation : e.company_id = cid})
    IN [i \in 1..Len(rels) |-> [a |-> rels[i].a_id, b |-> rels[i].b_id]]

\* The relations the records page lists for a company.
listRelations(cid) == {e \in record_relation : e.company_id = cid}

\* create_relation requests past validation that have not yet committed.
InFlight == {t \in Threads : req[t].pc # "idle"}

\* The thread that serves the next create_relation request: threads share
\* nothing but the store, so a new request takes the first free one.
FreeThread == CHOOSE t \in Threads : req[t].pc = "idle"

-----------------------------------------------------------------------------
\* Admin handlers

create_company(name) ==
    /\ Admin \in user
    /\ IF Strip(name) = <<>>
       THEN /\ resp' = Response("create_company", "nameRequired")
            /\ UNCHANGED <<company, sessions>>
       ELSE /\ NextRowid(company) + (IF seed_pc = "company" THEN 1 ELSE 0) <= MaxCompany
            /\ company' = company \cup {NextRowid(company)}
            /\ resp' = Response("create_company", "created")
            /\ sessions' = Scoped(sessions, FALSE)
    /\ UNCHANGED <<user, record, record_relation, req, seed_pc, seed_company>>

\* Users are kept by what the handlers read of them (is_superadmin, company_id).
\* The posted company_id is parsed with int() and stored as it is.
create_user(is_superadmin, company_id) ==
    /\ Admin \in user
    /\ user' = user \cup {[is_superadmin |-> is_superadmin,
                           company_id |-> IF is_superadmin THEN None ELSE company_id]}
    /\ resp' = Response("create_user", "created")
    /\ sessions' = Scoped(sessions, FALSE)
    /\ UNCHANGED <<company, record, record_relation, req, seed_pc, seed_company>>

-----------------------------------------------------------------------------
\* Company-user handlers

\* Lines 270-285: the branch create_record takes for user u and the posted name.
CreateRecordOutcome(u, rawname) ==
    IF Strip(rawname) = <<>> THEN "nameRequired"
    ELSE IF NotCompanyUser(u) THEN "notCompanyUser"
    ELSE "created"

create_record(u, rawname) ==
    /\ current_user(u)
    /\ resp' = Response("create_record", CreateRecordOutcome(u, rawname))
    /\ sessions' = IF CreateRecordOutcome(u, rawname) = "nameRequired"
                   THEN sessions
                   ELSE Scoped(sessions, FALSE)
    /\ IF CreateRecordOutcome(u, rawname) = "created"
       THEN /\ NextRowid(IdsOf(record)) + (IF seed_pc # "idle" THEN 2 ELSE 0) <= MaxRecord
            /\ record' = record \cup {[id |-> NextRowid(IdsOf(record)),
                                       company_id |-> u.company_id,
                                       name |-> Strip(rawname)]}
       ELSE UNCHANGED record
    /\ UNCHANGED <<company, user, record_relation, req, seed_pc, seed_company>>

\* Lines 295-311: the early return create_relation takes for user u and the
\* posted ids, or "proceed" when it takes none.
ValidateOutcome(u, a_id, b_id) ==
    IF SelfRelation(a_id, b_id) THEN "selfRelation"
    ELSE IF NotCompanyUser(u) THEN "notCompanyUser"
    ELSE IF CountOwned(u.company_id, a_id, b_id) # 2 THEN "invalidEndpoints"
    ELSE "proceed"

\* Lines 293-311: parse, self-relation check, user check, endpoint count.
create_relation_validate(t, u, a_id, b_id) ==
    /\ req[t].pc = "idle"
    /\ current_user(u)
    /\ IF ValidateOutcome(u, a_id, b_id) # "proceed"
       THEN /\ resp' = Response("create_relation", ValidateOutcome(u, a_id, b_id))
            /\ sessions' = IF ValidateOutcome(u, a_id, b_id) = "selfRelation"
                           THEN sessions
                           ELSE db_close(get_db(sessions, t), t, FALSE)
            /\ UNCHANGED req
       ELSE /\ NextRowid(IdsOf(record_relation)) + Cardinality(InFlight) <= MaxRelation
            /\ req' = [req EXCEPT ![t] = [pc |-> "exists", user |-> u,
                                          a_id |-> a_id, b_id |-> b_id]]
            /\ resp' = NoResp
            /\ sessions' = get_db(sessions, t)
    /\ UNCHANGED <<company, user, record, record_relation, seed_pc, seed_company>>

\* Lines 312-315, 320-321: canonical pair and the existence check.
create_relation_exists(t) ==
    /\ req[t].pc = "exists"
    /\ LET r == req[t]
           p == normalized_pair(r.a_id, r.b_id)
       IN IF ExistingRelation(p[1], p[2], r.user.company_id) # {}
          THEN /\ resp' = Response("create_relation", "alreadyExists")
               /\ req' = [req EXCEPT ![t] = Idle]
               /\ sessions' = db_close(sessions, t, FALSE)
          ELSE /\ req' = [req EXCEPT ![t].pc = "insert"]
               /\ resp' = NoResp
               /\ UNCHANGED sessions
    /\ UNCHANGED <<company, user, record, record_relation, seed_pc, seed_company>>

\* Lines 316-319: db.add(rel); db.commit().  A violated uq_relation_pair makes
\* the commit raise IntegrityError; nothing catches it, the finally closes the
\* session and the request ends with the raw error.
create_relation_commit(t) ==
    /\ req[t].pc = "insert"
    /\ LET r == req[t]
           p == normalized_pair(r.a_id, r.b_id)
       IN IF uq_relation_pair(p[1], p[2])
          THEN /\ resp' = Response("create_relation", "IntegrityError")
               /\ sessions' = db_close(sessions, t, TRUE)
               /\ UNCHANGED record_relation
          ELSE /\ record_relation' = record_relation \cup
                      {[id |-> NextRowid(IdsOf(record_relation)), a_id |-> p[1],
                        b_id |-> p[2], company_id |-> r.user.company_id]}
               /\ resp' = Response("create_relation", "created")
               /\ sessions' = db_close(sessions, t, FALSE)
    /\ req' = [req EXCEPT ![t] = Idle]
    /\ UNCHANGED <<company, user, record, seed_pc, seed_company>>

\* Lines 332-345: the branch delete_relation takes for user u and rel_id.
DeleteOutcome(u, rel_id) ==
    IF NotCompanyUser(u) THEN "notCompanyUser"
    ELSE IF DeleteLookup(rel_id, u.company_id) # {} THEN "deleted"
    ELSE "notFound"

delete_relation(u, rel_id) ==
    /\ current_user(u)
    /\ resp' = Response("delete_relation", DeleteOutcome(u, rel_id))
    /\ sessions' = Scoped(sessions, FALSE)
    /\ IF DeleteOutcome(u, rel_id) = "deleted"
       THEN record_relation' = record_relation \ DeleteLookup(rel_id, u.company_id)
       ELSE UNCHANGED record_relation
    /\ UNCHANGED <<company, user, record, req, seed_pc, seed_company>>

\* GET /records: the records page of the caller's company, records newest
\* first; a superadmin is sent to the admin page.
records(u) ==
    /\ current_user(u)
    /\ resp' = IF u.is_superadmin
               THEN Response("records", "redirectAdmin")
               ELSE [op |-> "records", outcome |-> "ok",
                     records |-> LET recs == NewestFirst({r \in record :
                                                             r.company_id = u.company_id})
                                 IN [i \in 1..Len(recs) |-> recs[i].id],
                     relations |-> listRelations(u.company_id)]
    /\ sessions' = Scoped(sessions, FALSE)
    /\ UNCHANGED <<company, user, record, record_relation, req, seed_pc, seed_company>>

\* Lines 385-401: what api_graph answers user u for the company_id parameter.
GraphResponse(u, requested) ==
    IF GraphMissingCompany(u, requested)
    THEN Response("api_graph", "error400")
    ELSE LET company_id == GraphCompany(u, requested)
         IN [op |-> "api_graph", outcome |-> "ok", company_id |-> company_id,
             nodes |-> GraphNodes(company_id), edges |-> GraphEdges(company_id)]

ApiGraphPrunes(u, requested) ==
    /\ current_user(u)
    /\ resp' = GraphResponse(u, requested)
    /\ sessions' = Scoped(sessions, FALSE)
    /\ record_relation' = {e \in record_relation :
                              CountOwned(e.company_id, e.a_id, e.b_id) = 2}
    /\ UNCHANGED <<company, user, record, req, seed_pc, seed_company>>

api_graph(u, requested) ==
    /\ current_user(u)
    /\ resp' = GraphResponse(u, requested)
    /\ sessions' = Scoped(sessions, FALSE)
    /\ UNCHANGED <<company, user, record, record_relation, req, seed_pc, seed_company>>

-----------------------------------------------------------------------------
\* seed_test_data.py: one step per commit

\* db.query(Record).delete(); db.query(Company).delete(); db.commit()
seed_reset ==
    /\ seed_pc = "idle"
    /\ record' = {}
    /\ company' = {}
    /\ seed_pc' = "company"
    /\ resp' = NoResp
    /\ sessions' = get_db(sessions, "seed")
    /\ UNCHANGED <<user, record_relation, req, seed_company>>

\* company = Company(name="Test Company"); db.add(company); db.commit()
seed_add_company ==
    /\ seed_pc = "company"
    /\ NextRowid(company) <= MaxCompany
    /\ company' = company \cup {NextRowid(company)}
    /\ seed_company' = NextRowid(company)
    /\ seed_pc' = "records"
    /\ resp' = NoResp
    /\ UNCHANGED <<user, record, record_relation, req, sessions>>

\* db.add_all(records); db.commit()
seed_add_records ==
    /\ seed_pc = "records"
    /\ LET n == NextRowid(IdsOf(record)) IN
       /\ n + 1 <= MaxRecord
       /\ record' = record \cup
              {[id |-> n, company_id |-> seed_company, name |-> <<"F">>],
               [id |-> n + 1, company_id |-> seed_company, name |-> <<"S">>]}
    /\ seed_pc' = "idle"
    /\ seed_company' = None
    /\ resp' = NoResp
    /\ sessions' = db_close(sessions, "seed", FALSE)
    /\ UNCHANGED <<company, user, record_relation, req>>

-----------------------------------------------------------------------------
\* Every operation that begins a request or the script.  The admin page posts
\* create_user with the id of one of the companies it lists.
Begin ==
    \/ \E name \in RawNames : create_company(name)
    \/ \E s \in BOOLEAN, c \in company : create_user(s, c)
    \/ \E u \in user, name \in RawNames : create_record(u, name)
    \/ /\ InFlight # Threads
       /\ \E u \in user, a \in RecordIds, b \in RecordIds :
             create_relation_validate(FreeThread, u, a, b)
    \/ \E u \in user, r \in RelationIds : delete_relation(u, r)
    \/ \E u \in user : records(u)
    \/ \E u \in user, c \in {None, 0} \cup CompanyIds : api_graph(u, c)
    \/ seed_reset

\* Every step that continues one.
Continue ==
    \/ \E t \in Threads : create_relation_exists(t)
    \/ \E t \in Threads : create_relation_commit(t)
    \/ seed_add_company
    \/ seed_add_records

Quiescent == InFlight = {} /\ seed_pc = "idle"

\* Requests served concurrently, the script run at any time.
Next == Begin \/ Continue

Spec == Init /\ [][Next]_vars

\* One operation at a time, each run to completion.
NextSeq == (Quiescent /\ Begin) \/ Continue

SpecSeq == Init /\ [][NextSeq]_vars

-----------------------------------------------------------------------------
\* Vocabulary of the properties

\* A caller acting for a tenant: not a superadmin, with a company id.
CompanyUser(u) == ~u.is_superadmin /\ u.company_id \in CompanyIds

\* Node x exists and is owned by tenant cid.
Owns(cid, x) == \E r \in record : r.id = x /\ r.company_id = cid

\* The edges among rels that join the unordered pair {x, y}.
EdgesOfPair(rels, x, y) == {e \in rels : {e.a_id, e.b_id} = {x, y}}

\* The request of thread t returns in this step.
Returns(t) == req[t].pc # "idle" /\ req'[t].pc = "idle"

RequestedIds == {None, 0} \cup CompanyIds

\* The node ids and the (a, b) pairs of a snapshot.
SnapshotNodeIds(body) == {body.nodes[i].id : i \in DOMAIN body.nodes}

SnapshotPairs(body) == {<<body.edges[i].a, body.edges[i].b>> : i \in DOMAIN body.edges}

NodeIdsOf(cid) == {r.id : r \in {q \in record : q.company_id = cid}}

PairsOf(cid) == {<<e.a_id, e.b_id>> : e \in {q \in record_relation : q.company_id = cid}}

-----------------------------------------------------------------------------
\* C1. Idempotence of createRelation, calls made one after the other: a call
\* by a tenant user that owns both distinct nodes is never rejected; when it
\* returns and no edge was stored for the unordered pair, it returns created
\* and exactly one edge for the pair is then stored and listed for the
\* tenant; when it returns and the tenant's edge for the pair was already
\* stored (in either argument order of the two calls), it returns
\* alreadyExists and the stored edges are unchanged, still exactly one for
\* the pair.
C1_Idempotence ==
    /\ [](\A u \in user, x \in RecordIds, y \in RecordIds :
            ( /\ CompanyUser(u) /\ x # y
              /\ Owns(u.company_id, x) /\ Owns(u.company_id, y) )
            => ValidateOutcome(u, x, y) = "proceed")
    /\ [][\A t \in Threads : Returns(t) =>
             LET r == req[t]
                 cid == r.user.company_id
                 before == EdgesOfPair(record_relation, r.a_id, r.b_id)
                 after == EdgesOfPair(record_relation', r.a_id, r.b_id)
             IN /\ before = {} =>
                     /\ resp' = Response("create_relation", "created")
                     /\ Cardinality(after) = 1
                     /\ after \subseteq {e \in record_relation' : e.company_id = cid}
                /\ (before # {} /\ before \subseteq listRelations(cid)) =>
                     /\ resp' = Response("create_relation", "alreadyExists")
                     /\ record_relation' = record_relation
                     /\ Cardinality(after) = 1
         ]_vars

\* A repeated call was answered alreadyExists while the tenant's one edge of
\* the pair, between two nodes it owns, is stored.
C1_Witness ==
    /\ resp = Response("create_relation", "alreadyExists")
    /\ \E e \in record_relation, u \in user :
         /\ CompanyUser(u) /\ e.company_id = u.company_id
         /\ Owns(u.company_id, e.a_id) /\ Owns(u.company_id, e.b_id)
         /\ Cardinality(EdgesOfPair(listRelations(u.company_id), e.a_id, e.b_id)) = 1

\* C2. Canonicalization invariant: every stored edge has a_id < b_id, so no
\* self-relation is ever stored.
C2_Canonical == \A e \in record_relation : e.a_id < e.b_id

\* A createRelation has just stored an edge.
C2_Witness ==
    /\ resp = Response("create_relation", "created")
    /\ record_relation # {}

\* C3. Global pair uniqueness: the store never holds two edges with the same
\* canonical pair (a_id, b_id), whatever company_id they carry and however
\* concurrent requests interleave.
C3_PairUnique ==
    \A e1 \in record_relation, e2 \in record_relation :
        (e1.a_id = e2.a_id /\ e1.b_id = e2.b_id) => e1 = e2

\* The unique constraint has just refused a second edge for a stored pair.
C3_Witness ==
    /\ resp = Response("create_relation", "IntegrityError")
    /\ record_relation # {}

\* C4. Concurrent duplicate insert is absorbed: a request that passed the
\* existence check and finds, at its insert, the tenant's edge for its pair
\* already stored by a concurrent request returns alreadyExists, not a raw
\* storage error.
C4_DuplicateAbsorbed ==
    [][\A t \in Threads :
        ( /\ req[t].pc = "insert"
          /\ Returns(t)
          /\ EdgesOfPair(listRelations(req[t].user.company_id),
                         req[t].a_id, req[t].b_id) # {} )
        => resp' = Response("create_relation", "alreadyExists")
    ]_vars

\* C5. Tenant isolation on edge creation: a createRelation by a tenant user
\* with two different ids of which not exactly two are existing nodes of the
\* caller's tenant is rejected with invalid endpoints and stores nothing.
C5_TenantIsolation ==
    /\ [](\A u \in user, x \in RecordIds, y \in RecordIds :
            ( /\ CompanyUser(u) /\ x # y
              /\ Cardinality({z \in {x, y} : Owns(u.company_id, z)}) # 2 )
            => ValidateOutcome(u, x, y) = "invalidEndpoints")
    /\ [][resp' = Response("create_relation", "invalidEndpoints")
            => UNCHANGED <<record, record_relation, req>>]_vars

\* A request was rejected for its endpoints while nodes of two tenants exist.
C5_Witness ==
    /\ resp = Response("create_relation", "invalidEndpoints")
    /\ \E r1 \in record, r2 \in record : r1.company_id # r2.company_id
    /\ \E u \in user : CompanyUser(u) /\ \E r \in record : r.company_id = u.company_id

\* C6. Self-relation rejection: createRelation with id1 = id2 by any caller,
\* for an existing or a missing id, ends with the self-relation rejection and
\* changes no table and starts no insert.
C6_SelfRelation ==
    /\ [](\A u \in user, x \in RecordIds : ValidateOutcome(u, x, x) = "selfRelation")
    /\ [][resp' = Response("create_relation", "selfRelation")
            => UNCHANGED <<company, user, record, record_relation, req, sessions>>]_vars

\* The rejection was given although no node exists at all.
C6_Witness ==
    /\ resp = Response("create_relation", "selfRelation")
    /\ record = {}

\* C7. Cross-tenant delete safety: deleteRelation by a tenant user on an edge
\* of another tenant returns notFound, as it does for an id that names no
\* edge, and stores are unchanged; and a step removes an edge only if it is a
\* deleteRelation of that edge's id by a user of the edge's tenant.
C7_DeleteSafety ==
    /\ [](\A u \in user, i \in RelationIds :
            ( /\ CompanyUser(u)
              /\ \A e \in record_relation : e.id = i => e.company_id # u.company_id )
            => DeleteOutcome(u, i) = "notFound")
    /\ [][/\ resp' = Response("delete_relation", "notFound")
              => record_relation' = record_relation
          /\ record_relation' # record_relation =>
              \A e \in record_relation \ record_relation' :
                /\ resp' = Response("delete_relation", "deleted")
                /\ \E u \in user : /\ CompanyUser(u)
                                   /\ u.company_id = e.company_id
                                   /\ delete_relation(u, e.id)
         ]_vars

\* notFound was answered while an edge is stored that is foreign to some
\* tenant user.
C7_Witness ==
    /\ resp = Response("delete_relation", "notFound")
    /\ \E e \in record_relation, u \in user :
         CompanyUser(u) /\ u.company_id # e.company_id

\* C8. Non-superadmin scoping: getGraph by a non-superadmin of tenant A, for
\* any requested id, answers a snapshot with company_id A whose nodes and
\* edges are exactly those stored for A.
C8_NonSuperadminScoping ==
    \A u \in user, c \in RequestedIds :
        ~u.is_superadmin =>
           LET body == GraphResponse(u, c)
           IN /\ body.outcome = "ok"
              /\ body.company_id = u.company_id
              /\ SnapshotNodeIds(body) = NodeIdsOf(u.company_id)
              /\ SnapshotPairs(body) = PairsOf(u.company_id)

\* A snapshot with an edge was answered while another tenant's node is stored
\* and not in it.
C8_Witness ==
    /\ resp.op = "api_graph" /\ resp.outcome = "ok"
    /\ resp.edges # <<>>
    /\ \E u \in user : ~u.is_superadmin /\ u.company_id = resp.company_id
    /\ \E r \in record : r.company_id # resp.company_id /\ r.id \notin SnapshotNodeIds(resp)

\* C9. Superadmin requires explicit target: getGraph by a superadmin without
\* a requested tenant id answers the request error and no snapshot; with the
\* id of tenant X it answers the snapshot of exactly X.
C9_SuperadminTarget ==
    \A u \in user :
        u.is_superadmin =>
          /\ GraphResponse(u, None) = Response("api_graph", "error400")
          /\ \A c \in CompanyIds :
                LET body == GraphResponse(u, c)
                IN /\ body.outcome = "ok"
                   /\ body.company_id = c
                   /\ SnapshotNodeIds(body) = NodeIdsOf(c)
                   /\ SnapshotPairs(body) = PairsOf(c)

\* The request error was answered while tenants with nodes exist.
C9_Witness ==
    /\ resp = Response("api_graph", "error400")
    /\ \E r \in record : r.company_id \in company

\* C10. Tenant referential invariant under tenant deletion: a step that
\* deletes a tenant leaves no node and no edge owned by it.
C10_TenantDeletionCascades ==
    [][\A c \in company \ company' :
        /\ \A r \in record' : r.company_id # c
        /\ \A e \in record_relation' : e.company_id # c
    ]_vars

-----------------------------------------------------------------------------
\* Integers a form may post as a_id or b_id: record ids, ids of no record,
\* zero and a negative number.
PostedIds == (0 - 1)..(MaxRecord + 1)

\* C11. normalize is symmetric, ordered and total: for all posted integers
\* x # y, normalized_pair(x, y) = normalized_pair(y, x), its first component
\* is the smaller and its second the larger of the two; for x = y it is
\* (x, x).  The same holds of the pair every request in progress computes.
C11_NormalizeSymmetric ==
    /\ \A x \in PostedIds, y \in PostedIds :
        LET p == normalized_pair(x, y)
        IN /\ p \in PostedIds \X PostedIds
           /\ x # y =>
                /\ p = normalized_pair(y, x)
                /\ {p[1], p[2]} = {x, y}
                /\ p[1] < p[2]
           /\ x = y => p = <<x, x>>
    /\ \A t \in InFlight :
        LET p == normalized_pair(req[t].a_id, req[t].b_id)
        IN /\ p = normalized_pair(req[t].b_id, req[t].a_id)
           /\ {p[1], p[2]} = {req[t].a_id, req[t].b_id}
           /\ p[1] < p[2]

\* A request that posted its ids in descending order has passed line 312 and
\* is about to insert.
C11_Witness ==
    \E t \in Threads : req[t].pc = "insert" /\ req[t].a_id > req[t].b_id

\* The tenant a getGraph call is answered for.
EffectiveTenant(u, requested) == IF u.is_superadmin THEN requested ELSE u.company_id

\* C12. getGraph projection: every successful answer, for any caller and
\* requested id, carries the effective tenant T as company_id, one node per
\* stored node owned by T and no other, one edge per stored edge whose tenant
\* is T and no other, each rendered as a = a_id and b = b_id, and a < b in
\* every returned edge.
C12_GraphProjection ==
    \A u \in user, c \in RequestedIds :
        LET body == GraphResponse(u, c)
            T == EffectiveTenant(u, c)
        IN body.outcome = "ok" =>
             /\ body.company_id = T
             /\ SnapshotNodeIds(body) = NodeIdsOf(T)
             /\ Len(body.nodes) = Cardinality({r \in record : r.company_id = T})
             /\ SnapshotPairs(body) = PairsOf(T)
             /\ Len(body.edges) = Cardinality({e \in record_relation : e.company_id = T})
             /\ \A i \in DOMAIN body.edges : body.edges[i].a < body.edges[i].b

\* A snapshot of two nodes and the edge between them was answered.
C12_Witness ==
    /\ resp.op = "api_graph" /\ resp.outcome = "ok"
    /\ Len(resp.nodes) = 2
    /\ Len(resp.edges) = 1
    /\ {resp.edges[1].a, resp.edges[1].b} = SnapshotNodeIds(resp)

\* A name of nothing but whitespace, and a name without surrounding whitespace.
Blank(s) == \A i \in DOMAIN s : s[i] = " "

Trimmed(s) == s = <<>> \/ (s[1] # " " /\ s[Len(s)] # " ")

\* C13. createNode validation: a createNode whose name is empty after
\* trimming ends with the validation outcome and stores no node, whoever
\* calls; a createNode that stores a node stores the posted name without its
\* surrounding whitespace; and every stored node has a non-empty, trimmed name.
C13_CreateNodeValidation ==
    /\ [](\A r \in record : r.name # <<>> /\ Trimmed(r.name))
    /\ [][resp'.op = "create_record" =>
            /\ resp'.outcome = "nameRequired" => record' = record
            /\ \A u \in user, n \in RawNames :
                  create_record(u, n) =>
                    /\ Blank(n) => /\ resp' = Response("create_record", "nameRequired")
                                   /\ record' = record
                    /\ \A r \in record' \ record :
                          /\ ~Blank(n)
                          /\ r.name # <<>> /\ Trimmed(r.name)
                          /\ \E i \in DOMAIN n, j \in DOMAIN n : r.name = SubSeq(n, i, j)
         ]_vars

\* A blank name was refused while a node created from a padded name is stored.
C13_Witness ==
    /\ resp = Response("create_record", "nameRequired")
    /\ \E r \in record : r.name = <<"A">>

\* C14. No session leak: the open store sessions are exactly those of the
\* create_relation requests in progress and of the running script, so when no
\* request is in progress and the script is not running no session is open;
\* and every step that ends a request, on success, on a rejection or on a
\* failing commit, leaves that request's thread without a session.
C14_NoSessionLeak ==
    /\ [](sessions = InFlight \cup (IF seed_pc = "idle" THEN {} ELSE {"seed"}))
    /\ [](Quiescent => sessions = {})
    /\ [][\A t \in Threads : Returns(t) => t \notin sessions']_vars

\* A request whose commit failed has returned and nothing is in progress.
C14_Witness ==
    /\ resp = Response("create_relation", "IntegrityError")
    /\ Quiescent
    /\ sessions = {}

\* The store after the scenario: tenant T exists and owns the only two
\* nodes, ids 1 and 2, created through createNode, and the only edge joins
\* them.
ScenarioState(T) ==
    /\ T \in company
    /\ record = {[id |-> 1, company_id |-> T, name |-> <<"A">>],
                 [id |-> 2, company_id |-> T, name |-> <<"A">>]}
    /\ Cardinality(record_relation) = 1
    /\ \A e \in record_relation : e.a_id = 1 /\ e.b_id = 2 /\ e.company_id = T

\* The ids of a snapshot's nodes, in the order returned.
SnapshotNodeOrder(body) == [i \in DOMAIN body.nodes |-> body.nodes[i].id]

\* C15 as stated. End-to-end scenario: after the scenario, getGraph by a
\* non-superadmin of T requesting T returns the nodes newest first, [2, 1],
\* the edges [{a: 1, b: 2}] and company_id T.
C15_ScenarioNewestFirst ==
    \A u \in user, T \in CompanyIds :
        (ScenarioState(T) /\ ~u.is_superadmin /\ u.company_id = T) =>
            /\ SnapshotNodeOrder(GraphResponse(u, T)) = <<2, 1>>
            /\ GraphResponse(u, T).edges = <<[a |-> 1, b |-> 2]>>
            /\ GraphResponse(u, T).company_id = T

\* C15 as amended. After the scenario, getGraph by a non-superadmin of T
\* requesting T returns exactly the nodes 1 and 2, each once, the edges
\* [{a: 1, b: 2}] and company_id T; it is the records listing that returns
\* the nodes newest first, [2, 1].
C15_Scenario ==
    \A u \in user, T \in CompanyIds :
        (ScenarioState(T) /\ ~u.is_superadmin /\ u.company_id = T) =>
            /\ SnapshotNodeIds(GraphResponse(u, T)) = {1, 2}
            /\ Len(GraphResponse(u, T).nodes) = 2
            /\ GraphResponse(u, T).edges = <<[a |-> 1, b |-> 2]>>
            /\ GraphResponse(u, T).company_id = T
            /\ (resp.op = "records" /\ resp.outcome = "ok" /\ Len(resp.records) = 2)
                 => resp.records = <<2, 1>>

\* The snapshot was answered to a user of T in the scenario's store.
C15_Witness ==
    /\ resp.op = "api_graph" /\ resp.outcome = "ok"
    /\ ScenarioState(resp.company_id)
    /\ SnapshotNodeIds(resp) = {1, 2}
    /\ resp.edges = <<[a |-> 1, b |-> 2]>>
    /\ \E u \in user : ~u.is_superadmin /\ u.company_id = resp.company_id

\* C16. Existence lookup is on the pair alone: when a createRelation that
\* passed the self-relation and endpoint checks reaches its lookup and an
\* edge with its canonical pair is stored, whatever tenant id the edge
\* carries, the call returns alreadyExists and goes on to no insert.
C16_LookupOnPairAlone ==
    [][\A t \in Threads :
        ( /\ req[t].pc = "exists"
          /\ req'[t] # req[t]
          /\ EdgesOfPair(record_relation, req[t].a_id, req[t].b_id) # {} )
        => /\ resp' = Response("create_relation", "alreadyExists")
           /\ req'[t] = Idle
    ]_vars

\* C17. Edge life cycle, calls made one after the other: a step stores an
\* edge only as the one edge of a createRelation that returns created, for a
\* pair that had none; a step removes an edge only as the one edge of a
\* deleteRelation that returns deleted; created and deleted each change
\* exactly one edge and alreadyExists changes none, so no stored edge is ever
\* altered; a createRelation that returns while its pair has no edge returns
\* created; and right after a deleteRelation returned deleted, every pair
\* without an edge that a tenant user owns would pass the checks, the lookup
\* and the constraint again.
C17_EdgeLifeCycle ==
    /\ [](resp = Response("delete_relation", "deleted") =>
            \A u \in user, x \in RecordIds, y \in RecordIds :
              ( /\ CompanyUser(u) /\ x # y
                /\ Owns(u.company_id, x) /\ Owns(u.company_id, y)
                /\ EdgesOfPair(record_relation, x, y) = {} )
              => /\ ValidateOutcome(u, x, y) = "proceed"
                 /\ ExistingRelation(normalized_pair(x, y)[1], normalized_pair(x, y)[2],
                                     u.company_id) = {}
                 /\ ~uq_relation_pair(normalized_pair(x, y)[1], normalized_pair(x, y)[2]))
    /\ [][LET added == record_relation' \ record_relation
              removed == record_relation \ record_relation'
          IN /\ \A e \in added :
                   /\ resp' = Response("create_relation", "created")
                   /\ EdgesOfPair(record_relation, e.a_id, e.b_id) = {}
                   /\ removed = {}
             /\ \A e \in removed :
                   /\ resp' = Response("delete_relation", "deleted")
                   /\ added = {}
             /\ resp' = Response("create_relation", "created") => Cardinality(added) = 1
             /\ resp' = Response("delete_relation", "deleted") => Cardinality(removed) = 1
             /\ resp' = Response("create_relation", "alreadyExists")
                   => record_relation' = record_relation
             /\ \A t \in Threads :
                   (Returns(t) /\ EdgesOfPair(record_relation, req[t].a_id, req[t].b_id) = {})
                   => resp' = Response("create_relation", "created")
         ]_vars

\* An edge was just deleted and a tenant user owns both nodes of a pair that
\* has no edge now.
C17_Witness ==
    /\ resp = Response("delete_relation", "deleted")
    /\ \E u \in user, x \in RecordIds, y \in RecordIds :
         /\ CompanyUser(u) /\ x # y
         /\ Owns(u.company_id, x) /\ Owns(u.company_id, y)
         /\ EdgesOfPair(record_relation, x, y) = {}

\* C18. getGraph is a pure read: a step that answers getGraph, with a
\* snapshot or with the request error, for any caller and requested id,
\* leaves the stored tenants, users, nodes and edges, the requests in progress
\* and the script as they were.
C18_GraphPureRead ==
    [][resp'.op = "api_graph" =>
         /\ \E u \in user, c \in RequestedIds : resp' = GraphResponse(u, c)
         /\ UNCHANGED <<company, user, record, record_relation, req, seed_pc, seed_company>>
    ]_vars

\* getGraph was answered while an edge is stored whose tenant does not own
\* its nodes.
C18_Witness ==
    /\ resp.op = "api_graph"
    /\ \E e \in record_relation : ~Owns(e.company_id, e.a_id)

\* C19. Every stored edge stays well-formed: in every reachable state both
\* endpoints of every stored edge are existing nodes owned by the edge's
\* tenant, so every edge of a getGraph snapshot has a and b among the
\* snapshot's node ids.
C19_EdgesWellFormed ==
    /\ \A e \in record_relation :
          Owns(e.company_id, e.a_id) /\ Owns(e.company_id, e.b_id)
    /\ \A u \in user, c \in RequestedIds :
          GraphResponse(u, c).outcome = "ok" =>
            \A i \in DOMAIN GraphResponse(u, c).edges :
              {GraphResponse(u, c).edges[i].a, GraphResponse(u, c).edges[i].b}
                 \subseteq SnapshotNodeIds(GraphResponse(u, c))

\* Callers of the mutating operations: the stored users and a non-superadmin
\* whose company_id is 0, the tenantless row create_user stores when 0 is
\* posted as company_id.
Callers == user \cup {[is_superadmin |-> FALSE, company_id |-> 0]}

\* A caller that acts for no tenant.
NoTenantCaller(u) == u.is_superadmin \/ u.company_id \notin CompanyIds

\* C20. Mutating operations are tenant-user only: createNode, createRelation
\* with id1 # id2 and deleteRelation by a superadmin or by a caller without a
\* tenant id are rejected; a rejected call leaves stored nodes and edges
\* unchanged; and every node or edge these operations store carries the
\* tenant id of a stored non-superadmin user, the caller.
C20_TenantUserOnly ==
    /\ [](\A u \in Callers :
            NoTenantCaller(u) =>
              /\ \A n \in RawNames :
                    CreateRecordOutcome(u, n) \in {"nameRequired", "notCompanyUser"}
              /\ \A x \in RecordIds, y \in RecordIds :
                    x # y => ValidateOutcome(u, x, y) = "notCompanyUser"
              /\ \A i \in RelationIds : DeleteOutcome(u, i) = "notCompanyUser")
    /\ [][/\ resp'.outcome \in {"nameRequired", "notCompanyUser"}
               => UNCHANGED <<record, record_relation, req>>
          /\ \A r \in record' \ record :
               resp'.op = "create_record" =>
                 \E u \in user : /\ CompanyUser(u) /\ r.company_id = u.company_id
                                  /\ \E n \in RawNames : create_record(u, n)
          /\ \A e \in record_relation' \ record_relation :
               \E t \in Threads : /\ Returns(t)
                                   /\ req[t].user \in user
                                   /\ CompanyUser(req[t].user)
                                   /\ e.company_id = req[t].user.company_id
         ]_vars

\* A superadmin was refused while a tenant user's node is stored.
C20_Witness ==
    /\ resp.outcome = "notCompanyUser"
    /\ \E r \in record, u \in user : CompanyUser(u) /\ r.company_id = u.company_id

=============================================================================
